---- MODULE Spec2Model ----
(***************************************************************************)
(* Model of src/session.go (package goecsclient): the ecsSession login /   *)
(* token refresh state machine (performLogin, createEcsSession) and the    *)
(* request methods Get, Post and Put.                                      *)
(*                                                                         *)
(* Strings are sequences of one-character strings.  A Go string variable   *)
(* is a two-word value (data pointer, length); s.Token is read and written *)
(* without synchronisation, one word at a time.                            *)
(*                                                                         *)
(* Time is counted in seconds.  Program steps take no time: the clock only *)
(* advances while every goroutine is blocked in time.Sleep or has nothing  *)
(* left to run.                                                            *)
(***************************************************************************)
EXTENDS Integers, Sequences, FiniteSets, TLC

\* ------------------------------------------------------------------ bounds

\* Number of login requests the server answers (one per performLogin call).
MaxLogins == 3
\* Number of Get/Post/Put calls the caller makes on the session.
MaxRequests == 1
\* The clock stops at MaxTime.
MaxTime == 600

\* --------------------------------------------------------------- constants

TimeBufferInSeconds == 300
StatusOK == 200
StatusCreated == 201

TokenHeader == "X-SDS-AUTH-TOKEN"
MaxAgeHeader == "X-SDS-AUTH-MAX-AGE"
DateHeader == "Date"
AcceptHeader == "Accept"
ContentTypeHeader == "Content-Type"
\* A header value is a sequence; this one is kept in one piece.
ApplicationJson == <<"application/json">>

Logins == 1..MaxLogins

\* ----------------------------------------------------------------- strings

EmptyString == <<>>

\* A Go string variable in memory: pointer to the bytes, and the length.
GoString(v) == [data |-> v, len |-> Len(v)]

\* The string a (data, len) pair denotes: the first len bytes at data; bytes
\* past the end of the backing array are unknown ("?").
StringValue(m) ==
    IF m.len <= Len(m.data)
    THEN SubSeq(m.data, 1, m.len)
    ELSE m.data \o [k \in 1..(m.len - Len(m.data)) |-> "?"]

DigitVal ==
    [c \in {"0", "1", "2", "3", "4", "5", "6", "7", "8", "9"} |->
        CASE c = "0" -> 0 [] c = "1" -> 1 [] c = "2" -> 2 [] c = "3" -> 3
          [] c = "4" -> 4 [] c = "5" -> 5 [] c = "6" -> 6 [] c = "7" -> 7
          [] c = "8" -> 8 [] c = "9" -> 9]

RECURSIVE ParseUint(_, _)
ParseUint(ds, acc) ==
    IF ds = <<>> THEN acc
    ELSE ParseUint(Tail(ds), acc * 10 + DigitVal[Head(ds)])

\* Mutant: every string parses, as 0 when it is not a number.
ParseIntAlwaysOk(str) == [ok |-> TRUE, val |-> 0]

\* strconv.ParseInt(str, 10, 64): an optional sign, then one or more decimal
\* digits.  The header values of this model stay far below the int64 range.
ParseInt(str) ==
    LET signed == str # <<>> /\ Head(str) \in {"+", "-"}
        neg == str # <<>> /\ Head(str) = "-"
        ds == IF signed THEN Tail(str) ELSE str
    IN  IF ds = <<>> \/ \E k \in 1..Len(ds) : ds[k] \notin DOMAIN DigitVal
        THEN [ok |-> FALSE, val |-> 0]
        ELSE [ok |-> TRUE,
              val |-> IF neg THEN 0 - ParseUint(ds, 0) ELSE ParseUint(ds, 0)]

\* ----------------------------------------------------------------- headers

EmptyHeader == [k \in {} |-> EmptyString]

\* http.Header.Get: the value of the header, "" when it is absent.
HeaderGet(h, k) == IF k \in DOMAIN h THEN h[k] ELSE EmptyString

\* http.Header.Set on a request: the later value replaces the earlier one.
HeaderSet(h, k, v) == [x \in DOMAIN h \cup {k} |-> IF x = k THEN v ELSE h[x]]

\* ------------------------------------------------------------------ errors

NoErr == [kind |-> "nil"]
TransportErr == [kind |-> "transport"]
ReadErr == [kind |-> "read"]
\* errors.Wrap(msg): the generic error carrying a message.
Wrap(msg) == [kind |-> "wrap", msg |-> msg]
\* errors.ParseError(b): the structured service error parsed from a body.
ParseError(b) == [kind |-> "parsed", body |-> b]

LoginFailedMsg == "login request failed, check endpoint or credentials"
NoTokenMsg == "Auth Token not available in response"

\* ------------------------------------------------------------------ server

DigitChar(n) == CHOOSE c \in DOMAIN DigitVal : DigitVal[c] = n % 10

\* The token the server issues in answer to the i-th login request: a fresh
\* string each time, and not all of the same length.
TokenFor(i) ==
    IF i % 2 = 1 THEN <<"t", DigitChar(i)>> ELSE <<"t", DigitChar(i), "x">>

NoResponse == [kind |-> "none", StatusCode |-> 0, Header |-> EmptyHeader]
TransportFailure == [kind |-> "error", StatusCode |-> 0, Header |-> EmptyHeader]
HttpResponse(code, h) == [kind |-> "http", StatusCode |-> code, Header |-> h]

\* Values of the X-SDS-AUTH-MAX-AGE header sent beside a token.
MaxAgeValues ==
    { <<"x">>, <<"0">>, <<"2", "0", "0">>, <<"3", "0", "0">>, <<"4", "0", "0">> }

\* What the i-th login request can come back with.
AllLoginResponses(i) ==
    {TransportFailure}
    \cup {HttpResponse(401, EmptyHeader),
          HttpResponse(401,
                       (TokenHeader :> TokenFor(i)) @@ (MaxAgeHeader :> <<"4", "0", "0">>))}
    \cup {HttpResponse(StatusOK, EmptyHeader),
          HttpResponse(StatusOK, (DateHeader :> <<"d">>)),
          HttpResponse(StatusOK, (MaxAgeHeader :> <<"4", "0", "0">>)),
          HttpResponse(StatusOK,
                       (TokenHeader :> EmptyString) @@ (MaxAgeHeader :> <<"4", "0", "0">>))}
    \cup {HttpResponse(StatusOK, (TokenHeader :> TokenFor(i)))}
    \cup {HttpResponse(StatusOK, (TokenHeader :> TokenFor(i)) @@ (MaxAgeHeader :> a)) :
            a \in MaxAgeValues}

\* ------------------------------------------------------------ performLogin

\* Lines 174-176: the age the refresh goroutine passes to time.Sleep.
RefreshDelay(age) ==
    IF age > TimeBufferInSeconds THEN age - TimeBufferInSeconds ELSE age

\* Line 177: time.Sleep returns at once for a zero or negative duration.
SleepFor(d) == IF d > 0 THEN d ELSE 0

\* Mutant: any status is taken as a successful login.
LoginStatusAny(code) == TRUE

\* Line 159: the status check of the login response.
LoginStatusOK(code) == code = StatusOK

\* Mutant: an empty token is not reported as an error.
LoginErrorNever(token) == NoErr

\* Lines 188-192: the error performLogin returns for its local token.
LoginError(token) ==
    IF token # EmptyString THEN NoErr ELSE Wrap(NoTokenMsg)

\* Mutant: the refresh goroutine is started for every parseable max-age, with
\* or without a token.
PerformLoginOutcomeEager(r) ==
    IF r.kind = "error"
    THEN [err |-> TransportErr, token |-> EmptyString, refresh |-> FALSE, age |-> 0]
    ELSE IF ~LoginStatusOK(r.StatusCode)
    THEN [err |-> Wrap(LoginFailedMsg), token |-> EmptyString, refresh |-> FALSE,
          age |-> 0]
    ELSE LET token == HeaderGet(r.Header, TokenHeader)
             maxAge == HeaderGet(r.Header, MaxAgeHeader)
             parsed == ParseInt(maxAge)
         IN  [err |-> LoginError(token),
              token |-> token,
              refresh |-> maxAge # EmptyString /\ parsed.ok,
              age |-> IF parsed.ok THEN parsed.val ELSE 0]

\* Lines 149-192 without the store of line 189: the error performLogin returns,
\* its local token, and whether (and with which age) it starts the refresh
\* goroutine of lines 172-184.
PerformLoginOutcome(r) ==
    IF r.kind = "error"
    THEN [err |-> TransportErr, token |-> EmptyString, refresh |-> FALSE, age |-> 0]
    ELSE IF ~LoginStatusOK(r.StatusCode)
    THEN [err |-> Wrap(LoginFailedMsg), token |-> EmptyString, refresh |-> FALSE,
          age |-> 0]
    ELSE LET hasHeader == Cardinality(DOMAIN r.Header) # 0
             token == IF hasHeader THEN HeaderGet(r.Header, TokenHeader)
                      ELSE EmptyString
             maxAge == IF hasHeader THEN HeaderGet(r.Header, MaxAgeHeader)
                       ELSE EmptyString
             parsed == ParseInt(maxAge)
         IN  [err |-> LoginError(token),
              token |-> token,
              refresh |-> maxAge # EmptyString /\ token # EmptyString /\ parsed.ok,
              age |-> IF parsed.ok THEN parsed.val ELSE 0]

\* The server answers MaxLogins login requests: the last one never comes back
\* with a response that would start a further refresh.
LoginResponses(i) ==
    IF i < MaxLogins THEN AllLoginResponses(i)
    ELSE {r \in AllLoginResponses(i) : ~PerformLoginOutcome(r).refresh}

\* ------------------------------------------------------------ Get/Post/Put

Methods == {"GET", "POST", "PUT"}

\* A []byte value: Go tells the nil slice from an empty one.
NilBytes == [isNil |-> TRUE, b |-> <<>>]
Bytes(b) == [isNil |-> FALSE, b |-> b]

\* resp.Status, the status line of the response.
StatusLine(code) ==
    CASE code = StatusOK -> "200 OK"
      [] code = StatusCreated -> "201 Created"
      [] code = 401 -> "401 Unauthorized"
      [] code = 404 -> "404 Not Found"
      [] OTHER -> "000"

\* The response of the server to a Get/Post/Put request.  The http.Client
\* always hands out a non-nil Body, also for a response of zero bytes;
\* readFails: reading the body ends in an error.
ApiResponse(code, body, readFails) ==
    [kind |-> "http", StatusCode |-> code, Status |-> StatusLine(code),
     Body |-> [isNil |-> FALSE, data |-> body, readFails |-> readFails]]
ApiTransportFailure ==
    [kind |-> "error", StatusCode |-> 0, Status |-> "",
     Body |-> [isNil |-> TRUE, data |-> <<>>, readFails |-> FALSE]]

ApiResponses ==
    {ApiTransportFailure}
    \cup {ApiResponse(c, b, FALSE) :
            c \in {StatusOK, StatusCreated, 404},
            b \in {<<>>, <<"{", "}">>}}
    \cup {ApiResponse(401, <<>>, FALSE)}
    \cup {ApiResponse(StatusOK, <<"{", "}">>, TRUE)}

\* io.ReadAll: all the bytes of the body in a slice that is never nil (an
\* empty body gives an empty, non-nil slice), or the read error.
ReadAll(body) ==
    IF body.readFails THEN [bytes |-> Bytes(<<>>), err |-> ReadErr]
    ELSE [bytes |-> Bytes(body.data), err |-> NoErr]

\* Mutant: Get takes 201 as a success as Post and Put do.
IsSuccessLenient(method, code) == code = StatusOK \/ code = StatusCreated

\* Lines 58, 97 and 132: the statuses each method takes as success.
IsSuccess(method, code) ==
    IF method = "GET" THEN code = StatusOK
    ELSE code = StatusOK \/ code = StatusCreated

\* Lines 59-62, 98-101, 133-136: the error for a non-success status.
StatusError(bodyBytes, status) ==
    IF ~bodyBytes.isNil THEN ParseError(bodyBytes.b) ELSE Wrap(status)

\* Lines 40-64 (Get), 79-103 (Post), 114-138 (Put): what the call returns.
Classify(method, r) ==
    IF r.kind = "error" THEN [bytes |-> NilBytes, err |-> TransportErr]
    ELSE LET rd == IF ~r.Body.isNil THEN ReadAll(r.Body)
                   ELSE [bytes |-> NilBytes, err |-> NoErr]
         IN  IF rd.err # NoErr THEN [bytes |-> NilBytes, err |-> rd.err]
             ELSE IF ~IsSuccess(method, r.StatusCode)
             THEN [bytes |-> NilBytes, err |-> StatusError(rd.bytes, r.Status)]
             ELSE [bytes |-> rd.bytes, err |-> NoErr]

\* Mutant: the body is closed only on the paths that read it to the end.
BodyAfterCloseOnSuccess(r) ==
    [closed |-> r.kind = "http" /\ ~r.Body.isNil /\ ~r.Body.readFails,
     drained |-> r.kind = "http" /\ ~r.Body.isNil /\ ~r.Body.readFails]

\* Lines 45-57, 84-96, 119-131: what the call has done to resp.Body when it
\* returns.  The deferred function closes a non-nil Body on every return after
\* line 45; io.ReadAll has read the Body to its end unless the read failed.
BodyAfter(r) ==
    [closed |-> r.kind = "http" /\ ~r.Body.isNil,
     drained |-> r.kind = "http" /\ ~r.Body.isNil /\ ~r.Body.readFails]

\* resp.Body of a call that has not received a response.
NoBody == [closed |-> FALSE, drained |-> FALSE]

\* Headers the caller hands to Get and Post (Put takes none).
ExtraHeaders == {EmptyHeader, (TokenHeader :> <<"z">>)}

\* Lines 33-38, 72-78, 111-113: the headers of the request, for the token
\* value the call read from s.Token.
RequestHeader(method, token, extra) ==
    LET h1 == HeaderSet(EmptyHeader, TokenHeader, token)
        h2 == IF method = "GET" THEN h1
              ELSE HeaderSet(h1, ContentTypeHeader, ApplicationJson)
        h3 == HeaderSet(h2, AcceptHeader, ApplicationJson)
    IN  IF method = "PUT" THEN h3
        ELSE [k \in DOMAIN h3 \cup DOMAIN extra |->
                IF k \in DOMAIN extra THEN extra[k] ELSE h3[k]]

\* ------------------------------------------------------------------- state

VARIABLES
    s,          \* the ecsSession: Username, Password, Endpoint, Token
    pc,         \* pc[i]: where the i-th performLogin call (and its goroutine) is
    resp,       \* resp[i]: the response of the i-th login request
    err,        \* err[i]: the error the i-th performLogin call returned
    issuedAt,   \* issuedAt[i]: when the server answered the i-th login request
    slept,      \* slept[i]: how long the goroutine of the i-th call sleeps
    wake,       \* wake[i]: when that sleep ends
    now,        \* the clock, in seconds
    terminated, \* log.Fatalln has ended the process
    mainPc,     \* createEcsSession: "creating", "created" or "failed"
    ret,        \* what createEcsSession returned
    req,        \* the Get/Post/Put call in progress, or the last one (sends:
                \* HTTP requests it sent; body: what it did to resp.Body)
    nreq        \* number of Get/Post/Put calls made

vars == <<s, pc, resp, err, issuedAt, slept, wake, now, terminated, mainPc, ret,
          req, nreq>>

loginVars == <<pc, resp, err, issuedAt, slept, wake>>

NoReturn == [session |-> "none", err |-> NoErr, Token |-> EmptyString,
             refreshStoring |-> FALSE]

IdleRequest ==
    [pc |-> "idle", method |-> "", extra |-> EmptyHeader,
     tok |-> GoString(EmptyString), first |-> "", floor |-> 0,
     header |-> EmptyHeader, resp |-> ApiTransportFailure,
     result |-> [bytes |-> NilBytes, err |-> NoErr],
     sends |-> 0, body |-> NoBody]

\* Lines 202-208: createEcsSession has built the session, its Token still
\* empty, and calls performLogin.
Init ==
    /\ s = [Username |-> "user", Password |-> "secret", Endpoint |-> "https://ecs",
            Token |-> GoString(EmptyString)]
    /\ pc = [i \in Logins |-> IF i = 1 THEN "send" ELSE "idle"]
    /\ resp = [i \in Logins |-> NoResponse]
    /\ err = [i \in Logins |-> NoErr]
    /\ issuedAt = [i \in Logins |-> 0]
    /\ slept = [i \in Logins |-> 0]
    /\ wake = [i \in Logins |-> 0]
    /\ now = 0
    /\ terminated = FALSE
    /\ mainPc = "creating"
    /\ ret = NoReturn
    /\ req = IdleRequest
    /\ nreq = 0

\* ----------------------------------------------------------------- actions

\* Lines 147-187 of the i-th performLogin call: the login request, the checks
\* of the response and, for a token with a parseable max-age, the start of the
\* refresh goroutine (lines 172-177: it computes its delay and sleeps).
LoginDo(i) ==
    /\ ~terminated
    /\ pc[i] = "send"
    /\ \E r \in LoginResponses(i) :
         LET o == PerformLoginOutcome(r)
             d == SleepFor(RefreshDelay(o.age))
         IN  /\ resp' = [resp EXCEPT ![i] = r]
             /\ issuedAt' = [issuedAt EXCEPT ![i] = now]
             /\ err' = [err EXCEPT ![i] = o.err]
             /\ IF o.refresh
                THEN /\ pc' = [pc EXCEPT ![i] = IF o.err = NoErr THEN "store" ELSE "ret",
                                         ![i + 1] = "sleep"]
                     /\ slept' = [slept EXCEPT ![i + 1] = d]
                     /\ wake' = [wake EXCEPT ![i + 1] = now + d]
                ELSE /\ pc' = [pc EXCEPT ![i] = IF o.err = NoErr THEN "store" ELSE "ret"]
                     /\ UNCHANGED <<slept, wake>>
    /\ UNCHANGED <<s, now, terminated, mainPc, ret, req, nreq>>

\* Line 189, first half: s.Token = token writes one of the two words of the
\* string; nothing orders the two writes for another goroutine.
LoginStoreFirst(i) ==
    /\ ~terminated
    /\ pc[i] = "store"
    /\ \E w \in {"data", "len"} :
         /\ s' = [s EXCEPT !.Token[w] = GoString(PerformLoginOutcome(resp[i]).token)[w]]
         /\ pc' = [pc EXCEPT ![i] = IF w = "data" THEN "wroteData" ELSE "wroteLen"]
    /\ UNCHANGED <<resp, err, issuedAt, slept, wake, now, terminated, mainPc, ret,
                   req, nreq>>

\* Lines 189-190, second half: the other word is written and performLogin
\* returns nil.
LoginStoreSecond(i) ==
    /\ ~terminated
    /\ pc[i] \in {"wroteData", "wroteLen"}
    /\ LET w == IF pc[i] = "wroteData" THEN "len" ELSE "data"
       IN  s' = [s EXCEPT !.Token[w] = GoString(PerformLoginOutcome(resp[i]).token)[w]]
    /\ pc' = [pc EXCEPT ![i] = "ret"]
    /\ UNCHANGED <<resp, err, issuedAt, slept, wake, now, terminated, mainPc, ret,
                   req, nreq>>

\* Mutant: the goroutine ends after its sleep without calling performLogin.
WakeAndEnd(i) ==
    /\ ~terminated
    /\ pc[i] = "sleep"
    /\ now >= wake[i]
    /\ pc' = [pc EXCEPT ![i] = "done"]
    /\ UNCHANGED <<s, resp, err, issuedAt, slept, wake, now, terminated, mainPc, ret,
                   req, nreq>>

\* Mutant: the refresh drops the old token before it logs in again.
WakeClearToken(i) ==
    /\ ~terminated
    /\ pc[i] = "sleep"
    /\ now >= wake[i]
    /\ pc' = [pc EXCEPT ![i] = "send"]
    /\ s' = [s EXCEPT !.Token = GoString(EmptyString)]
    /\ UNCHANGED <<resp, err, issuedAt, slept, wake, now, terminated, mainPc, ret,
                   req, nreq>>

\* Line 177: the sleep of the refresh goroutine is over; line 178 calls
\* performLogin.
Wake(i) ==
    /\ ~terminated
    /\ pc[i] = "sleep"
    /\ now >= wake[i]
    /\ pc' = [pc EXCEPT ![i] = "send"]
    /\ UNCHANGED <<s, resp, err, issuedAt, slept, wake, now, terminated, mainPc, ret,
                   req, nreq>>

\* Lines 178-184: the refresh goroutine's performLogin returned nil; the
\* goroutine ends.
RefreshDone(i) ==
    /\ ~terminated
    /\ i > 1
    /\ pc[i] = "ret"
    /\ err[i] = NoErr
    /\ pc' = [pc EXCEPT ![i] = "done"]
    /\ UNCHANGED <<s, resp, err, issuedAt, slept, wake, now, terminated, mainPc, ret,
                   req, nreq>>

\* Mutant: the refresh goroutine logs the failure and tries the login again.
RefreshRetry(i) ==
    /\ ~terminated
    /\ i > 1
    /\ pc[i] = "ret"
    /\ err[i] # NoErr
    /\ pc' = [pc EXCEPT ![i] = "send"]
    /\ UNCHANGED <<s, resp, err, issuedAt, slept, wake, now, terminated, mainPc, ret,
                   req, nreq>>

\* Lines 179-183: the refresh goroutine's performLogin returned an error;
\* log.Fatalln ends the process.
RefreshFatal(i) ==
    /\ ~terminated
    /\ i > 1
    /\ pc[i] = "ret"
    /\ err[i] # NoErr
    /\ terminated' = TRUE
    /\ UNCHANGED <<s, loginVars, now, mainPc, ret, req, nreq>>

\* Mutant: createEcsSession returns the session whatever the login returned.
CreateReturnAlways ==
    /\ ~terminated
    /\ mainPc = "creating"
    /\ pc[1] = "ret"
    /\ mainPc' = "created"
    /\ ret' = [session |-> "s", err |-> err[1], Token |-> StringValue(s.Token),
               refreshStoring |->
                   \E i \in Logins :
                       i > 1 /\ pc[i] \in {"wroteData", "wroteLen", "ret", "done"}]
    /\ pc' = [pc EXCEPT ![1] = "done"]
    /\ UNCHANGED <<s, resp, err, issuedAt, slept, wake, now, terminated, req, nreq>>

\* Lines 209-212: createEcsSession returns (nil, err) when its login failed
\* and (s, nil) otherwise.  ret.Token is the session's Token as returned;
\* ret.refreshStoring tells whether a refresh login had by then begun to store
\* its own token.
CreateReturn ==
    /\ ~terminated
    /\ mainPc = "creating"
    /\ pc[1] = "ret"
    /\ mainPc' = IF err[1] = NoErr THEN "created" ELSE "failed"
    /\ ret' = [session |-> IF err[1] = NoErr THEN "s" ELSE "nil",
               err |-> err[1],
               Token |-> IF err[1] = NoErr THEN StringValue(s.Token) ELSE EmptyString,
               refreshStoring |->
                   \E i \in Logins :
                       i > 1 /\ pc[i] \in {"wroteData", "wroteLen", "ret", "done"}]
    /\ pc' = [pc EXCEPT ![1] = "done"]
    /\ UNCHANGED <<s, resp, err, issuedAt, slept, wake, now, terminated, req, nreq>>

\* The number of the latest refresh login that has returned nil (0: none).
RefreshedUpTo ==
    LET done == {k \in Logins : k > 1 /\ pc[k] \in {"ret", "done"} /\ err[k] = NoErr}
    IN  IF done = {} THEN 0 ELSE CHOOSE k \in done : \A j \in done : j <= k

\* Lines 28-33, 67-72, 106-111: a Get, Post or Put call on the session
\* createEcsSession returned starts and reads one word of s.Token.
ReqStart(method, extra) ==
    /\ ~terminated
    /\ mainPc = "created"
    /\ req.pc = "idle"
    /\ nreq < MaxRequests
    /\ method = "PUT" => extra = EmptyHeader
    /\ \E w \in {"data", "len"} :
         req' = [IdleRequest EXCEPT !.pc = "read", !.method = method, !.extra = extra,
                                    !.tok[w] = s.Token[w], !.first = w,
                                    !.floor = RefreshedUpTo]
    /\ UNCHANGED <<s, loginVars, now, terminated, mainPc, ret, nreq>>

\* Lines 33-38, 72-78, 111-113: the call reads the other word of s.Token and
\* sets the headers of its request.
ReqReadSecond ==
    /\ ~terminated
    /\ req.pc = "read"
    /\ LET w == IF req.first = "data" THEN "len" ELSE "data"
           tok == [req.tok EXCEPT ![w] = s.Token[w]]
       IN  req' = [req EXCEPT !.pc = "do", !.tok = tok,
                              !.header = RequestHeader(req.method, StringValue(tok),
                                                       req.extra)]
    /\ UNCHANGED <<s, loginVars, now, terminated, mainPc, ret, nreq>>

\* Mutant: a call the server turns down forgets the session's token.
ReqDoClearToken ==
    /\ ~terminated
    /\ req.pc = "do"
    /\ \E r \in ApiResponses :
         /\ req' = [IdleRequest EXCEPT !.method = req.method, !.resp = r,
                                       !.result = Classify(req.method, r),
                                       !.sends = req.sends + 1,
                                       !.body = BodyAfter(r)]
         /\ s' = IF Classify(req.method, r).err = NoErr THEN s
                 ELSE [s EXCEPT !.Token = GoString(EmptyString)]
    /\ nreq' = nreq + 1
    /\ UNCHANGED <<loginVars, now, terminated, mainPc, ret>>

\* Mutant: a call that failed sends its request a second time.
ReqDoRetry ==
    /\ ~terminated
    /\ req.pc = "do"
    /\ \E r \in ApiResponses :
         IF Classify(req.method, r).err # NoErr /\ req.sends = 0
         THEN /\ req' = [req EXCEPT !.sends = 1]
              /\ nreq' = nreq
         ELSE /\ req' = [IdleRequest EXCEPT !.method = req.method, !.resp = r,
                                            !.result = Classify(req.method, r),
                                            !.sends = req.sends + 1,
                                            !.body = BodyAfter(r)]
              /\ nreq' = nreq + 1
    /\ UNCHANGED <<s, loginVars, now, terminated, mainPc, ret>>

\* Lines 40-64, 79-103, 114-138: the request is sent once, the response is
\* classified and the call returns.
ReqDo ==
    /\ ~terminated
    /\ req.pc = "do"
    /\ \E r \in ApiResponses :
         req' = [IdleRequest EXCEPT !.method = req.method, !.resp = r,
                                    !.result = Classify(req.method, r),
                                    !.sends = req.sends + 1,
                                    !.body = BodyAfter(r)]
    /\ nreq' = nreq + 1
    /\ UNCHANGED <<s, loginVars, now, terminated, mainPc, ret>>

\* No goroutine has a step to take and one waits for the time to pass:
\* createEcsSession has returned, no call is in progress, and every refresh
\* goroutine sleeps or has ended.
Quiet ==
    /\ mainPc # "creating"
    /\ req.pc = "idle"
    /\ \A i \in Logins : pc[i] \in {"idle", "sleep", "done"}
    /\ \A i \in Logins : pc[i] = "sleep" => wake[i] > now
    /\ \E i \in Logins : pc[i] = "sleep"

\* Time passes until the earliest sleep ends.
Tick ==
    /\ ~terminated
    /\ Quiet
    /\ LET sleepers == {i \in Logins : pc[i] = "sleep"}
           next == CHOOSE x \in {wake[i] : i \in sleepers} :
                       \A i \in sleepers : x <= wake[i]
       IN  /\ next <= MaxTime
           /\ now' = next
    /\ UNCHANGED <<s, loginVars, terminated, mainPc, ret, req, nreq>>

Next ==
    \/ \E i \in Logins : LoginDo(i)
    \/ \E i \in Logins : LoginStoreFirst(i)
    \/ \E i \in Logins : LoginStoreSecond(i)
    \/ \E i \in Logins : Wake(i)
    \/ \E i \in Logins : RefreshDone(i)
    \/ \E i \in Logins : RefreshFatal(i)
    \/ CreateReturn
    \/ \E m \in Methods, x \in ExtraHeaders : ReqStart(m, x)
    \/ ReqReadSecond
    \/ ReqDo
    \/ Tick

Spec == Init /\ [][Next]_vars

\* Go runs every runnable goroutine eventually (the caller's too, whose
\* request the server answers), and time passes.
FairSpec ==
    /\ Spec
    /\ \A i \in Logins :
         /\ WF_vars(LoginDo(i))
         /\ WF_vars(LoginStoreFirst(i))
         /\ WF_vars(LoginStoreSecond(i))
         /\ WF_vars(Wake(i))
         /\ WF_vars(RefreshDone(i))
         /\ WF_vars(RefreshFatal(i))
    /\ WF_vars(CreateReturn)
    /\ WF_vars(ReqReadSecond)
    /\ WF_vars(ReqDo)
    /\ WF_vars(Tick)

\* ------------------------------------------------------------------ claims

\* performLogin call i has begun (its goroutine is past the sleep).
Started(i) == pc[i] \in {"send", "store", "wroteData", "wroteLen", "ret", "done"}
\* performLogin call i has returned.
Returned(i) == pc[i] \in {"ret", "done"}
\* The login response of call i is a success: status 200 with a token.
LoginSucceeded(i) ==
    /\ resp[i].kind = "http"
    /\ resp[i].StatusCode = 200
    /\ HeaderGet(resp[i].Header, TokenHeader) # EmptyString
\* The max-age the response of call i carries, as an integer.
MaxAgeOf(i) == ParseInt(HeaderGet(resp[i].Header, MaxAgeHeader))

\* C1: the refresh scheduled by a login whose response carries max-age X
\* sleeps exactly max(0, X - 300) seconds before it calls performLogin.
C1_SleepIsAgeMinusBuffer ==
    \A i \in Logins :
        (i > 1 /\ pc[i] # "idle") =>
            slept[i] = (IF MaxAgeOf(i - 1).val - 300 > 0
                        THEN MaxAgeOf(i - 1).val - 300 ELSE 0)

\* C2: a Get/Post/Put call started after a refresh login has succeeded
\* attaches the token of that login (or of a later one), never the token of
\* an earlier login.
C2_RequestUsesRefreshedToken ==
    (req.pc = "do" /\ req.floor > 1) =>
        \E j \in Logins :
            /\ j >= req.floor
            /\ LoginSucceeded(j)
            /\ StringValue(req.tok) = HeaderGet(resp[j].Header, TokenHeader)

\* C3: the performLogin call of a refresh goroutine begins only after the
\* performLogin call that started the goroutine has stored its token and
\* returned.
C3_RefreshAfterLoginReturned ==
    \A i \in Logins : (i > 1 /\ Started(i)) => Returned(i - 1)

\* The server expires the token of login i max-age seconds after issuing it
\* (a response without a parseable max-age declares no expiry; the claim is
\* read for tokens that are valid for some time, max-age > 0).
Expired(i) ==
    /\ MaxAgeOf(i).ok
    /\ MaxAgeOf(i).val > 0
    /\ now >= issuedAt[i] + MaxAgeOf(i).val

\* C4: after createEcsSession has returned a session, and as long as every
\* login has succeeded, the Token the session holds is never an expired one.
C4_TokenNeverExpired ==
    (/\ mainPc = "created"
     /\ ~terminated
     /\ \A i \in Logins : resp[i].kind # "none" => LoginSucceeded(i))
    => \A i \in Logins :
           (LoginSucceeded(i) /\ StringValue(s.Token) = TokenFor(i)) => ~Expired(i)

\* C5: the token a Get/Post/Put call has read from s.Token is the complete
\* token of one login, never a mix of two.
C5_NoTornTokenRead ==
    req.pc = "do" => \E i \in Logins : req.tok = GoString(TokenFor(i))

\* A refresh goroutine's performLogin has returned an error.
RefreshFailed == \E i \in Logins : i > 1 /\ pc[i] = "ret" /\ err[i] # NoErr

\* C6: once a scheduled performLogin has failed, no login request is sent,
\* no login is retried and no refresh is scheduled; the process terminates,
\* and nothing happens after the termination.
C6_RefreshFailureIsFatal ==
    /\ [][RefreshFailed =>
            /\ resp' = resp
            /\ \A i \in Logins :
                 /\ pc[i] \in {"idle", "sleep", "send"} => pc'[i] = pc[i]
                 /\ (pc[i] = "ret" /\ err[i] # NoErr) => pc'[i] = "ret"]_vars
    /\ [][terminated => UNCHANGED vars]_vars
    /\ (RefreshFailed ~> terminated)

\* C6 witness: a refresh login failed and the process has terminated.
C6_Witness == terminated /\ RefreshFailed

C8_Non200LoginFails ==
    \A i \in Logins :
        (resp[i].kind = "http" /\ resp[i].StatusCode # 200) =>
            /\ Returned(i)
            /\ err[i] = Wrap(LoginFailedMsg)
            /\ s.Token.data # TokenFor(i)

\* C8 witness: a 401 response carrying a token and a max-age was turned down.
C8_Witness ==
    \E i \in Logins :
        /\ resp[i].kind = "http" /\ resp[i].StatusCode = 401
        /\ HeaderGet(resp[i].Header, TokenHeader) = TokenFor(i)
        /\ HeaderGet(resp[i].Header, MaxAgeHeader) # EmptyString
        /\ Returned(i)

\* C9: a login response with status 200 and a missing or empty token header
\* makes performLogin return the "Auth Token not available" error, with or
\* without a max-age header; it is never a success.
C9_MissingTokenLoginFails ==
    \A i \in Logins :
        (/\ resp[i].kind = "http" /\ resp[i].StatusCode = 200
         /\ HeaderGet(resp[i].Header, TokenHeader) = EmptyString) =>
            /\ Returned(i)
            /\ err[i] = Wrap(NoTokenMsg)
            /\ i = 1 => mainPc # "created"

\* C9 witness: a 200 response with an empty token header and a max-age
\* header was turned down.
C9_Witness ==
    \E i \in Logins :
        /\ resp[i].kind = "http" /\ resp[i].StatusCode = 200
        /\ TokenHeader \in DOMAIN resp[i].Header
        /\ resp[i].Header[TokenHeader] = EmptyString
        /\ MaxAgeHeader \in DOMAIN resp[i].Header
        /\ Returned(i)
        /\ err[i] = Wrap(NoTokenMsg)

\* C10: a Get/Post/Put call that received a non-success status with a body
\* of zero bytes returns the generic error wrapping the status line.
C10_EmptyBodyWrapsStatusLine ==
    (/\ req.pc = "idle"
     /\ req.resp.kind = "http"
     /\ ~IsSuccess(req.method, req.resp.StatusCode)
     /\ ~req.resp.Body.readFails
     /\ req.resp.Body.data = <<>>)
    => req.result.err = Wrap(req.resp.Status)

\* A Get/Post/Put call has returned after the server sent it a response.
CallReturnedResponse == nreq > 0 /\ req.pc = "idle" /\ req.resp.kind = "http"

\* The statuses C11 names as success: 200 for Get, 200 or 201 for Post and Put.
AcceptedStatus ==
    IF req.method = "GET" THEN req.resp.StatusCode = 200
    ELSE req.resp.StatusCode \in {200, 201}

\* C11 as stated: a call returns (body, no error) if and only if the status
\* is 200 (Get) or 200 or 201 (Post, Put), the bytes then being the response
\* body exactly; on every other status it returns nil bytes and an error.
C11_StatusClassification ==
    CallReturnedResponse =>
        /\ AcceptedStatus <=>
             (req.result.err = NoErr /\ req.result.bytes = Bytes(req.resp.Body.data))
        /\ ~AcceptedStatus => (req.result.bytes = NilBytes /\ req.result.err # NoErr)

\* C11 amended: as C11 for every response whose body is read without error;
\* when reading the body fails the call returns nil bytes and the read error,
\* whatever the status.
C11_StatusClassificationWhenBodyRead ==
    CallReturnedResponse =>
        /\ ~req.resp.Body.readFails =>
             /\ AcceptedStatus <=>
                  (/\ req.result.err = NoErr
                   /\ req.result.bytes = Bytes(req.resp.Body.data))
             /\ ~AcceptedStatus =>
                  (req.result.bytes = NilBytes /\ req.result.err # NoErr)
        /\ req.resp.Body.readFails =>
             (req.result.bytes = NilBytes /\ req.result.err = ReadErr)

\* C11 witness: a Get call answered 201 with a body returned nil bytes and an
\* error.
C11_Witness ==
    /\ CallReturnedResponse
    /\ req.method = "GET"
    /\ req.resp.StatusCode = 201
    /\ req.resp.Body.data # <<>>
    /\ req.result.bytes = NilBytes
    /\ req.result.err # NoErr

\* C12: the request a Get/Post/Put call sends carries the header
\* X-SDS-AUTH-TOKEN with the value the call read from s.Token, whatever extra
\* headers the caller handed in.
C12_RequestCarriesSessionToken ==
    req.pc = "do" => HeaderGet(req.header, TokenHeader) = StringValue(req.tok)

\* A string that strconv.ParseInt turns down: it holds a character that is
\* neither a digit nor a sign.
NotAnInteger(v) == \E k \in 1..Len(v) : v[k] \notin (DOMAIN DigitVal \cup {"+", "-"})

\* The response of login i is a success without a usable max-age: the header
\* is absent or not an integer.
SucceededWithoutMaxAge(i) ==
    /\ LoginSucceeded(i)
    /\ \/ MaxAgeHeader \notin DOMAIN resp[i].Header
       \/ NotAnInteger(HeaderGet(resp[i].Header, MaxAgeHeader))

\* Login i writes a word of its own token into s.Token with each step of its
\* store.
StoresOwnToken(i) ==
    /\ (pc[i] = "store" /\ pc'[i] = "wroteData") => s'.Token.data = TokenFor(i)
    /\ (pc[i] = "store" /\ pc'[i] = "wroteLen") => s'.Token.len = Len(TokenFor(i))
    /\ (pc[i] = "wroteData" /\ pc'[i] = "ret") => s'.Token.len = Len(TokenFor(i))
    /\ (pc[i] = "wroteLen" /\ pc'[i] = "ret") => s'.Token.data = TokenFor(i)

\* C13: a successful login response without a max-age header, or with one
\* that is not an integer, schedules no refresh: the login returns nil after
\* storing its token, and no later performLogin call is ever started.
C13_NoMaxAgeNoRefresh ==
    /\ [](\A i \in Logins :
            SucceededWithoutMaxAge(i) =>
                /\ err[i] = NoErr
                /\ pc[i] \in {"store", "wroteData", "wroteLen", "ret", "done"}
                /\ \A j \in Logins : j > i => (pc[j] = "idle" /\ resp[j].kind = "none"))
    /\ [][\A i \in Logins : SucceededWithoutMaxAge(i) => StoresOwnToken(i)]_vars

\* C13 witness: the first login succeeded with the max-age "x", has stored
\* its token and returned, and time has not brought a second login.
C13_Witness ==
    /\ SucceededWithoutMaxAge(1)
    /\ HeaderGet(resp[1].Header, MaxAgeHeader) = <<"x">>
    /\ mainPc = "created"
    /\ StringValue(s.Token) = TokenFor(1)
    /\ pc[2] = "idle"
    /\ nreq = 1

\* The response of login i is a success with a max-age that is an integer.
SucceededWithMaxAge(i) ==
    /\ LoginSucceeded(i)
    /\ MaxAgeHeader \in DOMAIN resp[i].Header
    /\ MaxAgeOf(i).ok

\* The refresh that login i scheduled has sent its login request, or cannot
\* any more: the process has terminated, or its sleep ends after the clock of
\* the model stops.
RefreshFollowed(i) ==
    resp[i + 1].kind # "none" \/ terminated \/ wake[i + 1] > MaxTime

\* C14: every successful login with a parseable max-age schedules its one
\* refresh, and in the end every such login has been followed by the login
\* request of its refresh: the chain goes on for as long as the logins
\* succeed.  (A response, once received, stays, so "in the end always" says
\* that each such login leads to its refresh.)
C14_RefreshChainContinues ==
    /\ [](\A i \in 1..(MaxLogins - 1) : SucceededWithMaxAge(i) => pc[i + 1] # "idle")
    /\ <>[](\A i \in 1..(MaxLogins - 1) : SucceededWithMaxAge(i) => RefreshFollowed(i))

\* C14 witness: two logins in a row succeeded with a max-age, time has passed
\* and the second refresh has logged in and ended.
C14_Witness ==
    /\ SucceededWithMaxAge(1)
    /\ SucceededWithMaxAge(2)
    /\ now >= 200
    /\ LoginSucceeded(3)
    /\ pc[3] = "done"

\* C15: no step of a Get/Post/Put call changes the session; Username,
\* Password and Endpoint never change, and Token changes only in a store step
\* of performLogin.
C15_RequestsLeaveSessionAlone ==
    /\ [][req' # req => s' = s]_vars
    /\ [][s' # s =>
            /\ s'.Username = s.Username
            /\ s'.Password = s.Password
            /\ s'.Endpoint = s.Endpoint
            /\ \E i \in Logins :
                 pc[i] \in {"store", "wroteData", "wroteLen"} /\ pc'[i] # pc[i]]_vars

\* C15 witness: a call the server answered 404 has returned and the session
\* holds the token of its login.
C15_Witness ==
    /\ CallReturnedResponse
    /\ req.resp.StatusCode = 404
    /\ s.Token = GoString(TokenFor(1))
    /\ s.Username = "user"

\* C16: a Get/Post/Put call has sent no request before its dispatch and
\* exactly one when it returns, whatever the outcome, and no step of a call
\* starts or advances a login.
C16_OneRequestPerCall ==
    /\ [](req.pc \in {"read", "do"} => req.sends = 0)
    /\ []((nreq > 0 /\ req.pc = "idle") => req.sends = 1)
    /\ [][req' # req => UNCHANGED <<pc, resp>>]_vars

\* C16 witness: a call whose token the server rejected with 401 returned an
\* error after one request, and no login followed.
C16_Witness ==
    /\ CallReturnedResponse
    /\ req.resp.StatusCode = 401
    /\ req.result.err # NoErr
    /\ req.sends = 1
    /\ \A i \in Logins : i > 1 => pc[i] = "idle"

\* C17 as stated: when a call that received a response has returned, the
\* response body has been read to its end and closed.
C17_BodyDrainedAndClosed ==
    CallReturnedResponse => (req.body.closed /\ req.body.drained)

\* C17 amended: when a call that received a response has returned, the
\* response body has been closed, and it has been read to its end unless
\* reading it failed.
C17_BodyClosedAndDrainedIfReadable ==
    CallReturnedResponse =>
        /\ req.body.closed
        /\ ~req.resp.Body.readFails => req.body.drained

\* C17 witness: a call whose body read failed has returned with the body
\* closed.
C17_Witness ==
    /\ CallReturnedResponse
    /\ req.resp.Body.readFails
    /\ req.result.err = ReadErr
    /\ req.body.closed

\* A performLogin call is in progress: called and not yet returned.
InProgress(i) == pc[i] \in {"send", "store", "wroteData", "wroteLen"}

\* C18: at every moment at most one refresh goroutine sleeps and at most one
\* performLogin call is in progress.
C18_RefreshesNeverOverlap ==
    /\ Cardinality({i \in Logins : pc[i] = "sleep"}) <= 1
    /\ Cardinality({i \in Logins : InProgress(i)}) <= 1

\* The response of login i makes the login fail: a transport error, a status
\* other than 200, or no token.
LoginFailed(i) == resp[i].kind # "none" /\ ~LoginSucceeded(i)

\* C19: a performLogin call that fails returns its error without writing
\* s.Token and without starting a refresh goroutine (no later call exists);
\* after a failed createEcsSession no refresh goroutine exists.
C19_FailedLoginLeavesNothing ==
    /\ [](\A i \in Logins :
            LoginFailed(i) =>
                /\ err[i] # NoErr
                /\ pc[i] \in {"ret", "done"}
                /\ \A j \in Logins : j > i => pc[j] = "idle")
    /\ [](mainPc = "failed" => \A j \in Logins : j > 1 => pc[j] = "idle")
    /\ [][\A i \in Logins :
            (pc[i] = "send" /\ pc'[i] # "send" /\ err'[i] # NoErr) => s' = s]_vars

\* C19 witness: createEcsSession failed on a 200 response that carried a
\* max-age and an empty token, and no refresh goroutine was started.
C19_Witness ==
    /\ mainPc = "failed"
    /\ resp[1].kind = "http"
    /\ resp[1].StatusCode = 200
    /\ MaxAgeHeader \in DOMAIN resp[1].Header
    /\ err[1] = Wrap(NoTokenMsg)
    /\ pc[2] = "idle"
    /\ StringValue(s.Token) = EmptyString

\* C20: once createEcsSession has returned a session, s.Token is never the
\* empty string.
C20_TokenNeverEmptyAfterCreate ==
    mainPc = "created" => StringValue(s.Token) # EmptyString

\* C20 witness: after the session was created, a refresh login has stored its
\* token and ended and a Get/Post/Put call has returned.
C20_Witness ==
    /\ mainPc = "created"
    /\ pc[2] = "done"
    /\ nreq = 1
    /\ req.pc = "idle"
    /\ StringValue(s.Token) = TokenFor(2)

====
